---- MODULE Spec2Model ----
(***************************************************************************)
(* Launch path of the SageMaker Training Compiler glue for torch_xla:      *)
(*   torch_xla/distributed/sm_dist.py      (topology, environment, argv)   *)
(*   torch_xla/distributed/xla_spawn.py    (one process per GPU)           *)
(*   torch_xla/__training_compiler__.py    (compiler flag layer)           *)
(*                                                                         *)
(* A Python str is the sequence of its code points, so that prefixes,      *)
(* signs, digits and white space of every script are there to be looked    *)
(* at; next to each text of the model stands, as a comment, what it        *)
(* spells.  A Python int is its decimal text (a sign for negative          *)
(* numbers, no leading zeros), which has no largest value.  The names of   *)
(* exceptions, the fields of the manifest and the positions of the launch  *)
(* are never looked into and are plain strings.                            *)
(*                                                                         *)
(* Computed from the text, as the library computes it: int(), str(),       *)
(* startswith, os.path.join, the parser of xla_spawn.py, and what /bin/sh  *)
(* does with a command line of ShellReads.  Given with the input, because  *)
(* it is a function of the library or of the machine: what json.loads and  *)
(* json.dumps do with a text, what the shell does with any other command   *)
(* line, what the import of a script, torch.cuda.get_device_name and       *)
(* os.makedirs do.  xmp.spawn is not in the repository; its steps follow   *)
(* sections 4.4, 5 and 7 of the specification.  The model starts from the  *)
(* parsed command line of sm_dist.py and a manifest whose fields, when     *)
(* they are there, are a str and a list of str.  Each of the two Python    *)
(* processes is started without options of the interpreter, as line 46 of  *)
(* sm_dist.py starts xla_spawn; what the interpreter reads from its        *)
(* environment when it starts is computed (PythonStart).                   *)
(***************************************************************************)
EXTENDS Integers, Sequences, FiniteSets, TLC

VARIABLES
    argv_num_gpus,     \* --num_gpus on the sm_dist command line, or NoArg
    argv_script,       \* --training_script on that command line, or NoArg
    manifest,          \* the file named by --resource_config
    rem_args,          \* rem_args of parse_known_args: flat list of strings
    framework_params,  \* what SM_FRAMEWORK_PARAMS holds
    modules,           \* script path -> what importing its module does
    shell,             \* what /bin/sh makes of a command it does not just split
    env0,              \* os.environ when the launcher process started
    env,               \* os.environ of the process that is running
    pc,                \* position of the launch
    max_str_digits,    \* sys.get_int_max_str_digits() of that process
    error,             \* exception that ended the launcher, or "none"
    num_gpus,          \* args.num_gpus of sm_dist.py once parsed
    training_command,  \* the string sm_dist.py hands to the shell
    launches,          \* number of times the launch command was executed
    call_env,          \* os.environ of the launcher when it called the shell
    reading,           \* the commands the shell runs for the launch command
    run,               \* number of those commands the shell has started
    last_status,       \* exit status of the last command the shell ran
    sys_argv,          \* sys.argv as patched by xla_spawn.main
    spawn_calls,       \* number of calls of xmp.spawn
    nprocs,            \* nprocs of the last call of xmp.spawn
    workers,           \* the worker processes in the order of their start
    compiler_runs,     \* processes in which configure_compiler set flags
    child_status,      \* exit status of the last xla_spawn process, -1 if none
    exit_status        \* exit status of the launcher, -1 while running

inputs == <<argv_num_gpus, argv_script, manifest, rem_args, framework_params,
            modules, shell, env0>>

vars == <<argv_num_gpus, argv_script, manifest, rem_args, framework_params,
          modules, shell, env0, env, pc, max_str_digits, error, num_gpus,
          training_command, launches, call_env, reading, run, last_status,
          sys_argv, spawn_calls, nprocs, workers, compiler_runs,
          child_status, exit_status>>

----------------------------------------------------------------------------
(* Bounds of the model                                                     *)

MaxHosts == 2
MaxGpus == 2
MaxFwdArgs == 6

----------------------------------------------------------------------------
(* Strings and integers                                                    *)

\* the zeros of the decimal digits of Unicode (category Nd); the digits of
\* a script are the ten code points from its zero on
DecimalZeros ==
    {48, 1632, 1776, 1984, 2406, 2534, 2662, 2790, 2918, 3046, 3174, 3302,
     3430, 3558, 3664, 3792, 3872, 4160, 4240, 6112, 6160, 6470, 6608, 6784,
     6800, 6992, 7088, 7232, 7248, 42528, 43216, 43264, 43472, 43504, 43600,
     44016, 65296, 66720, 68912, 69734, 69872, 69942, 70096, 70384, 70736,
     70864, 71248, 71360, 71472, 71904, 72016, 72784, 73040, 73120, 92768,
     92864, 93008, 120782, 120792, 120802, 120812, 120822, 123200, 123632,
     125264, 130032}

\* a character that int() and \d take for a decimal digit
IsDigit(c) == c \in 48 (* "0" *)..57 (* "9" *) \/ \E z \in DecimalZeros : c \in z..(z + 9)

\* the value of a decimal digit
DigitValue(c) ==
    IF c \in 48 (* "0" *)..57 (* "9" *) THEN c - 48 (* "0" *)
    ELSE c - (CHOOSE z \in DecimalZeros : c \in z..(z + 9))

\* the decimal digits of n >= 0
RECURSIVE Decimal(_)
Decimal(n) ==
    IF n < 10 THEN <<48 (* "0" *) + n>>
    ELSE Decimal(n \div 10) \o <<48 (* "0" *) + (n % 10)>>

\* str(n) of an int
Str(n) == IF n < 0 THEN <<45>> (* "-" *) \o Decimal(0 - n) ELSE Decimal(n)

SP == <<32>> (* " " *)

RECURSIVE Join(_, _)
Join(sep, strings) ==
    IF strings = <<>> THEN <<>>
    ELSE IF Len(strings) = 1 THEN strings[1]
    ELSE strings[1] \o sep \o Join(sep, Tail(strings))

StartsWith(s, prefix) ==
    Len(s) >= Len(prefix) /\ SubSeq(s, 1, Len(prefix)) = prefix

\* bool(s) of a str
Truthy(s) == s # <<>>

\* the characters int() takes for white space: tab, line feed, vertical
\* tab, form feed, carriage return, space, and the spaces and line
\* separators of Unicode beyond ASCII
Whitespace ==
    {9, 10, 11, 12, 13, 32, 133, 160, 5760} \cup (8192..8202)
        \cup {8232, 8233, 8239, 8287, 12288}

\* s without the white space at its two ends
Strip(s) ==
    LET first == CHOOSE i \in DOMAIN s :
                     /\ s[i] \notin Whitespace
                     /\ \A j \in 1..(i - 1) : s[j] \in Whitespace
        after == CHOOSE k \in 0..(Len(s) - 1) :
                     /\ s[Len(s) - k] \notin Whitespace
                     /\ \A j \in (Len(s) - k + 1)..Len(s) : s[j] \in Whitespace
    IN  IF \A i \in DOMAIN s : s[i] \in Whitespace THEN <<>>
        ELSE SubSeq(s, first, Len(s) - after)

\* digits with single underscores between them, as int() accepts; limit
\* is sys.get_int_max_str_digits() of the process: unless it is 0, more
\* digits than that raise ValueError like any other text
IsDigitString(s, limit) ==
    /\ s # <<>>
    /\ \A i \in DOMAIN s : IsDigit(s[i]) \/ s[i] = 95 (* "_" *)
    /\ s[1] # 95 (* "_" *) /\ s[Len(s)] # 95 (* "_" *)
    /\ \A i \in 1..(Len(s) - 1) : ~(s[i] = 95 (* "_" *) /\ s[i + 1] = 95 (* "_" *))
    /\ limit = 0 \/ Len(s) - Cardinality({i \in DOMAIN s : s[i] = 95 (* "_" *)}) <= limit

\* the text after white space around it and one sign are taken off
Unsigned(text) ==
    LET s == Strip(text)
    IN  IF s # <<>> /\ s[1] \in {43 (* "+" *), 45 (* "-" *)} THEN Tail(s) ELSE s

\* int(text) does not raise ValueError
IsInt(text, limit) == IsDigitString(Unsigned(text), limit)

DropUnderscores(s) == SelectSeq(s, LAMBDA c : c # 95 (* "_" *))

\* the digits of s as ASCII digits
AsciiDigits(s) == [i \in DOMAIN s |-> 48 (* "0" *) + DigitValue(s[i])]

DropLeadingZeros(s) ==
    LET zeros == Cardinality({i \in DOMAIN s :
                                 \A j \in 1..i : s[j] = 48 (* "0" *)})
    IN  IF zeros = Len(s) THEN <<48>> (* "0" *) ELSE SubSeq(s, zeros + 1, Len(s))

\* int(text): the int as its decimal text
ParseInt(text) ==
    LET s == Strip(text)
        digits == DropLeadingZeros(AsciiDigits(DropUnderscores(Unsigned(text))))
    IN  IF s # <<>> /\ s[1] = 45 (* "-" *) /\ digits # <<48>> (* "0" *) THEN <<45>> (* "-" *) \o digits ELSE digits

\* the number an int of at most nine digits stands for
RECURSIVE Number(_)
Number(digits) ==
    IF digits = <<>> THEN 0
    ELSE IF digits[1] = 45 (* "-" *) THEN 0 - Number(Tail(digits))
    ELSE 10 * Number(SubSeq(digits, 1, Len(digits) - 1))
             + DigitValue(digits[Len(digits)])

----------------------------------------------------------------------------
(* os.environ: a function from the names that are set to their values      *)

EnvGet(e, key, default) == IF key \in DOMAIN e THEN e[key] ELSE default

EnvSet(e, key, value) ==
    [k \in DOMAIN e \cup {key} |-> IF k = key THEN value ELSE e[k]]


----------------------------------------------------------------------------
(* The names of the environment variables the three files read or set      *)

SM_NUM_GPUS == <<83, 77, 95, 78, 85, 77, 95, 71, 80, 85, 83>> (* "SM_NUM_GPUS" *)
XRT_HOST_ORDINAL == <<88, 82, 84, 95, 72, 79, 83, 84, 95, 79, 82, 68, 73, 78,
        65, 76>> (* "XRT_HOST_ORDINAL" *)
XRT_SHARD_WORLD_SIZE == <<88, 82, 84, 95, 83, 72, 65, 82, 68, 95, 87, 79, 82,
        76, 68, 95, 83, 73, 90, 69>> (* "XRT_SHARD_WORLD_SIZE" *)
XRT_WORKERS == <<88, 82, 84, 95, 87, 79, 82, 75, 69, 82, 83>> (* "XRT_WORKERS" *)
XRT_MESH_SERVICE_ADDRESS == <<88, 82, 84, 95, 77, 69, 83, 72, 95, 83, 69, 82,
        86, 73, 67, 69, 95, 65, 68, 68, 82, 69, 83, 83>> (* "XRT_MESH_SERVICE_ADDRESS" *)
GPU_NUM_DEVICES == <<71, 80, 85, 95, 78, 85, 77, 95, 68, 69, 86, 73, 67, 69,
        83>> (* "GPU_NUM_DEVICES" *)
SM_OUTPUT_DATA_DIR == <<83, 77, 95, 79, 85, 84, 80, 85, 84, 95, 68, 65, 84, 65,
        95, 68, 73, 82>> (* "SM_OUTPUT_DATA_DIR" *)
SM_LOG_LEVEL == <<83, 77, 95, 76, 79, 71, 95, 76, 69, 86, 69, 76>> (* "SM_LOG_LEVEL" *)
SM_TRAINING_COMPILER_CONFIGURED == <<83, 77, 95, 84, 82, 65, 73, 78, 73, 78,
        71, 95, 67, 79, 77, 80, 73, 76, 69, 82, 95, 67, 79, 78, 70, 73, 71, 85,
        82, 69, 68>> (* "SM_TRAINING_COMPILER_CONFIGURED" *)
PT_XLA_DEBUG == <<80, 84, 95, 88, 76, 65, 95, 68, 69, 66, 85, 71>> (* "PT_XLA_DEBUG" *)
XLA_IR_DEBUG == <<88, 76, 65, 95, 73, 82, 95, 68, 69, 66, 85, 71>> (* "XLA_IR_DEBUG" *)
XLA_HLO_DEBUG == <<88, 76, 65, 95, 72, 76, 79, 95, 68, 69, 66, 85, 71>> (* "XLA_HLO_DEBUG" *)
XLA_SAVE_TENSORS_FILE == <<88, 76, 65, 95, 83, 65, 86, 69, 95, 84, 69, 78, 83,
        79, 82, 83, 95, 70, 73, 76, 69>> (* "XLA_SAVE_TENSORS_FILE" *)
XLA_SAVE_TENSORS_FMT == <<88, 76, 65, 95, 83, 65, 86, 69, 95, 84, 69, 78, 83,
        79, 82, 83, 95, 70, 77, 84>> (* "XLA_SAVE_TENSORS_FMT" *)
XLA_METRICS_FILE == <<88, 76, 65, 95, 77, 69, 84, 82, 73, 67, 83, 95, 70, 73,
        76, 69>> (* "XLA_METRICS_FILE" *)
XLA_SAVE_HLO_FILE == <<88, 76, 65, 95, 83, 65, 86, 69, 95, 72, 76, 79, 95, 70,
        73, 76, 69>> (* "XLA_SAVE_HLO_FILE" *)
XLA_DUMP_FATAL_STACK == <<88, 76, 65, 95, 68, 85, 77, 80, 95, 70, 65, 84, 65,
        76, 95, 83, 84, 65, 67, 75>> (* "XLA_DUMP_FATAL_STACK" *)
XLA_DUMP_HLO_GRAPH == <<88, 76, 65, 95, 68, 85, 77, 80, 95, 72, 76, 79, 95, 71,
        82, 65, 80, 72>> (* "XLA_DUMP_HLO_GRAPH" *)
XLA_FIX_DIV_FP64 == <<88, 76, 65, 95, 70, 73, 88, 95, 68, 73, 86, 95, 70, 80,
        54, 52>> (* "XLA_FIX_DIV_FP64" *)
PYTHONINTMAXSTRDIGITS == <<80, 89, 84, 72, 79, 78, 73, 78, 84, 77, 65, 88, 83,
        84, 82, 68, 73, 71, 73, 84, 83>> (* "PYTHONINTMAXSTRDIGITS" *)

----------------------------------------------------------------------------
(* The interpreter starts: the limit of int() for the process              *)

\* sys.int_info: the limit when nothing sets one, and the smallest limit
\* other than 0, which stands for none
default_max_str_digits == 4300
str_digits_check_threshold == 640

\* the largest int of C, as its digits
INT_MAX == <<50, 49, 52, 55, 52, 56, 51, 54, 52, 55>> (* "2147483647" *)

\* the limit a text sets, as the interpreter reads it with strtol: white
\* space, one sign and ASCII digits up to the end of the text, a number
\* that is an int of C, and then 0 or at least the threshold
ReadMaxStrDigits(text) ==
    LET \* the characters strtol passes over before a number
        space == {9, 10, 11, 12, 13, 32}
        blanks == Cardinality({i \in DOMAIN text :
                                  \A j \in 1..i : text[j] \in space})
        s == SubSeq(text, blanks + 1, Len(text))
        signed == s # <<>> /\ s[1] \in {43 (* "+" *), 45 (* "-" *)}
        digits == IF signed THEN Tail(s) ELSE s
        number == DropLeadingZeros(digits)
        isnumber == /\ digits # <<>>
                    /\ \A i \in DOMAIN digits : digits[i] \in 48 (* "0" *)..57 (* "9" *)
        \* of two texts of digits of one length, a is the larger number
        larger(a, b) == \E i \in DOMAIN a :
                            /\ a[i] > b[i]
                            /\ \A j \in 1..(i - 1) : a[j] = b[j]
        isint == \/ Len(number) < Len(INT_MAX)
                 \/ Len(number) = Len(INT_MAX) /\ ~larger(number, INT_MAX)
    IN  IF ~isnumber THEN [valid |-> FALSE, limit |-> 0]
        ELSE IF number = <<48>> (* "0" *) THEN [valid |-> TRUE, limit |-> 0]
        ELSE IF s[1] = 45 (* "-" *) \/ ~isint THEN [valid |-> FALSE, limit |-> 0]
        ELSE IF Number(number) < str_digits_check_threshold
        THEN [valid |-> FALSE, limit |-> 0]
        ELSE [valid |-> TRUE, limit |-> Number(number)]

\* the interpreter starts in the environment e: PYTHONINTMAXSTRDIGITS sets
\* the limit of int() unless it is not set or empty; a text that sets no
\* limit is a fatal error, and the process ends with status 1 before any
\* line of Python is run
IntMaxStrDigits(e) ==
    LET text == EnvGet(e, PYTHONINTMAXSTRDIGITS, <<>>)
    IN  IF text = <<>> THEN [fatal |-> FALSE, limit |-> default_max_str_digits]
        ELSE [fatal |-> ~ReadMaxStrDigits(text).valid,
              limit |-> ReadMaxStrDigits(text).limit]
----------------------------------------------------------------------------
(* torch_xla/distributed/sm_dist.py                                        *)

worker_port == 43857
mesh_service_port == 53957

\* an option that is not on the command line; no str equals it
NoArg == <<-1>>

\* args.num_gpus: the str given with --num_gpus, by default
\* os.environ['SM_NUM_GPUS'], which is evaluated in every case and raises
\* KeyError when the variable is not set
ParseKnownArgs(e, given) ==
    IF SM_NUM_GPUS \notin DOMAIN e
    THEN [raised |-> "KeyError", num_gpus |-> NoArg]
    ELSE [raised |-> "none",
          num_gpus |-> IF given = NoArg THEN e[SM_NUM_GPUS] ELSE given]

\* open(args.resource_config), json.loads, config['current_host'],
\* config['hosts']: the exception of the first step that fails
ReadManifest(file) ==
    CASE file.state = "missing" -> "FileNotFoundError"
      [] file.state = "invalid" -> "JSONDecodeError"
      [] "current_host" \notin DOMAIN file.config -> "KeyError"
      [] "hosts" \notin DOMAIN file.config -> "KeyError"
      [] OTHER -> "none"

\* "localservice:%s;%s:%s" % (i, host, args.worker_port)
WorkerLocator(i, host, port) ==
    <<108, 111, 99, 97, 108, 115, 101, 114, 118, 105, 99, 101, 58>> (* "localservice:" *) \o Str(i) \o <<59>> (* ";" *) \o host \o <<58>> (* ":" *) \o Str(port)

\* variant: the rank counted from 1
RankUpdateOneBased(i, host, current_host, rank) ==
    IF current_host = host THEN i + 1 ELSE rank

\* the body of "for i, host in enumerate(config['hosts'])"; i is 0-based
RankUpdate(i, host, current_host, rank) ==
    IF current_host = host THEN i ELSE rank

RECURSIVE HostLoop(_, _, _, _, _)
HostLoop(cfg, port, i, rank, xrt_workers) ==
    IF i >= Len(cfg["hosts"])
    THEN [rank |-> rank, xrt_workers |-> xrt_workers]
    ELSE HostLoop(cfg, port, i + 1,
                  RankUpdate(i, cfg["hosts"][i + 1], cfg["current_host"], rank),
                  Append(xrt_workers,
                         WorkerLocator(i, cfg["hosts"][i + 1], port)))

\* variant: the scan keeps the first match
ResolveTopologyFirstMatch(cfg, port) ==
    LET matches == {i \in DOMAIN cfg["hosts"] :
                       cfg["hosts"][i] = cfg["current_host"]}
    IN  [rank |-> IF matches = {} THEN 0
                  ELSE (CHOOSE i \in matches : \A j \in matches : i <= j) - 1,
         xrt_workers |-> HostLoop(cfg, port, 0, 0, <<>>).xrt_workers]

\* rank = 0; xrt_workers = []; for ...
ResolveTopology(cfg, port) == HostLoop(cfg, port, 0, 0, <<>>)

\* os.environ['XRT_MESH_SERVICE_ADDRESS'] = hosts[0] + ":" + str(port),
\* only when there is more than one host
SetMeshServiceAddress(e, cfg, port) ==
    IF Len(cfg["hosts"]) > 1
    THEN EnvSet(e, XRT_MESH_SERVICE_ADDRESS,
                cfg["hosts"][1] \o <<58>> (* ":" *) \o Str(port))
    ELSE e

SetTopology(e, cfg) ==
    LET topo == ResolveTopology(cfg, worker_port)
        e1 == EnvSet(e, XRT_HOST_ORDINAL, Str(topo.rank))
        e2 == EnvSet(e1, XRT_SHARD_WORLD_SIZE, Str(Len(cfg["hosts"])))
        e3 == EnvSet(e2, XRT_WORKERS, Join(<<124>> (* "|" *), topo.xrt_workers))
    IN  SetMeshServiceAddress(e3, cfg, mesh_service_port)

\* os.environ['GPU_NUM_DEVICES'] = str(args.num_gpus); args.num_gpus is a str
SetDeviceCount(e, n) == EnvSet(e, GPU_NUM_DEVICES, n)

\* "python -m torch_xla.distributed.xla_spawn --num_gpus N script "
CommandHead(n, script) ==
    <<112, 121, 116, 104, 111, 110, 32, 45, 109, 32>> (* "python -m " *) \o <<116,
            111, 114, 99, 104, 95, 120, 108, 97, 46, 100, 105, 115, 116, 114,
            105, 98, 117, 116, 101, 100, 46, 120, 108, 97, 95, 115, 112, 97,
            119, 110, 32>> (* "torch_xla.distributed.xla_spawn " *)
        \o <<45, 45, 110, 117, 109, 95, 103, 112, 117, 115, 32>> (* "--num_gpus " *) \o n \o SP
        \o script \o SP

\* the body of the forwarding loop for one (arg, value)
ForwardPair(arg, value) ==
    IF value = <<84, 114, 117, 101>> (* "True" *) THEN arg \o SP
    ELSE IF value # <<70, 97, 108, 115, 101>> (* "False" *) THEN arg \o SP \o value \o SP
    ELSE <<>>

\* for i in range(0, len(rem_args), 2): arg, value = rem_args[i], rem_args[i+1]
\* i is 0-based; rem_args[i + 1] raises IndexError past the end of the list
RECURSIVE ForwardLoop(_, _, _)
ForwardLoop(args, i, cmd) ==
    IF i >= Len(args) THEN [raised |-> "none", command |-> cmd]
    ELSE IF i + 1 >= Len(args) THEN [raised |-> "IndexError", command |-> cmd]
    ELSE ForwardLoop(args, i + 2, cmd \o ForwardPair(args[i + 1], args[i + 2]))

\* lines 46-58; args.training_script + " " raises TypeError when the option
\* --training_script was not given and the script is None
BuildCommand(n, script, args) ==
    IF script = NoArg THEN [raised |-> "TypeError", command |-> <<>>]
    ELSE ForwardLoop(args, 0, CommandHead(n, script))

----------------------------------------------------------------------------
(* subprocess.check_call(training_command, shell=True): /bin/sh -c         *)

\* the first index at or after i where the character c stands, or 0
Find(s, c, i) ==
    LET hits == {j \in i..Len(s) : s[j] = c}
    IN  IF hits = {} THEN 0 ELSE CHOOSE j \in hits : \A k \in hits : j <= k

\* the texts between the characters c of s
Split(s, c) ==
    LET cuts == {0, Len(s) + 1} \cup {i \in DOMAIN s : s[i] = c}
        Cut(k) == CHOOSE i \in cuts : Cardinality({j \in cuts : j < i}) = k - 1
    IN  [k \in 1..(Cardinality(cuts) - 1) |->
            SubSeq(s, Cut(k) + 1, Cut(k + 1) - 1)]

Letters == (65 (* "A" *)..90 (* "Z" *)) \cup (97 (* "a" *)..122 (* "z" *))

\* the characters that /bin/sh takes for themselves wherever they stand in
\* an argument of a command: letters, digits and a few signs
InertChars ==
    Letters \cup (48 (* "0" *)..57 (* "9" *))
        \cup {95 (* "_" *), 45 (* "-" *), 46 (* "." *), 47 (* "/" *), 58 (* ":" *), 44 (* "," *), 43 (* "+" *), 37 (* "%" *), 61 (* "=" *), 64 (* "@" *)}

\* the words of a text: what stands between its blanks
ShellSplit(cmd) == SelectSeq(Split(cmd, 32 (* " " *)), LAMBDA word : word # <<>>)

\* the texts between the semicolons of a command line
ShellList(cmd) == Split(cmd, 59 (* ";" *))

\* a name of a shell variable
IsName(s) ==
    /\ s # <<>>
    /\ s[1] \in Letters \cup {95 (* "_" *)}
    /\ \A i \in DOMAIN s : s[i] \in Letters \cup (48 (* "0" *)..57 (* "9" *)) \cup {95 (* "_" *)}

\* a word NAME=value
IsAssignment(word) ==
    Find(word, 61 (* "=" *), 1) > 1
        /\ IsName(SubSeq(word, 1, Find(word, 61 (* "=" *), 1) - 1))

\* the number of assignments a simple command starts with
RECURSIVE Assignments(_, _)
Assignments(words, i) ==
    IF i <= Len(words) /\ IsAssignment(words[i])
    THEN Assignments(words, i + 1) ELSE i - 1

\* the words start the launcher of the workers as a module
XlaSpawnCommand(argv) ==
    /\ Len(argv) >= 3
    /\ argv[1] = <<112, 121, 116, 104, 111, 110>> (* "python" *)
    /\ argv[2] = <<45, 109>> (* "-m" *)
    /\ argv[3] = <<116, 111, 114, 99, 104, 95, 120, 108, 97, 46, 100, 105, 115,
            116, 114, 105, 98, 117, 116, 101, 100, 46, 120, 108, 97, 95, 115,
            112, 97, 119, 110>> (* "torch_xla.distributed.xla_spawn" *)

\* the variables the three files read or set; an assignment to another
\* name may change what the shell or the interpreter finds
LaunchVariables ==
    {SM_NUM_GPUS, GPU_NUM_DEVICES, XRT_HOST_ORDINAL,
     XRT_SHARD_WORLD_SIZE, XRT_WORKERS, XRT_MESH_SERVICE_ADDRESS,
     SM_LOG_LEVEL, SM_OUTPUT_DATA_DIR,
     SM_TRAINING_COMPILER_CONFIGURED}

\* commands the shell runs itself, with their exit status
Builtins == (<<116, 114, 117, 101>> (* "true" *) :> 0) @@ (<<58>> (* ":" *) :> 0) @@ (<<102,
        97, 108, 115, 101>> (* "false" *) :> 1)

\* a simple command of inert characters: the assignments it starts with go
\* into the environment of the program it names; status is the exit status
\* of a command that is not the launcher of the workers
SimpleCommand(text) ==
    LET words == ShellSplit(text)
        n == Assignments(words, 1)
        argv == SubSeq(words, n + 1, Len(words))
    IN  [assign |-> [i \in 1..n |->
                        LET eq == Find(words[i], 61 (* "=" *), 1)
                        IN  <<SubSeq(words[i], 1, eq - 1),
                              SubSeq(words[i], eq + 1, Len(words[i]))>>],
         argv |-> argv,
         status |-> IF argv # <<>> /\ argv[1] \in DOMAIN Builtins
                    THEN Builtins[argv[1]] ELSE -1]

\* the commands of a list: the text after the last semicolon may be blank
ListCommands(cmd) ==
    LET pieces == ShellList(cmd)
        last == pieces[Len(pieces)]
        kept == IF ShellSplit(last) = <<>>
                THEN SubSeq(pieces, 1, Len(pieces) - 1) ELSE pieces
    IN  [k \in DOMAIN kept |-> SimpleCommand(kept[k])]

\* the command lines of which the model computes what the shell does:
\* simple commands of inert characters, separated by semicolons, each of
\* them the launcher of the workers, with assignments to variables of the
\* launch at most, or a builtin without assignments
ShellReads(cmd) ==
    /\ \A i \in DOMAIN cmd : cmd[i] \in InertChars \cup {32 (* " " *), 59 (* ";" *)}
    /\ ListCommands(cmd) # <<>>
    /\ \A k \in DOMAIN ListCommands(cmd) :
        LET c == ListCommands(cmd)[k]
        IN  \/ /\ XlaSpawnCommand(c.argv)
               /\ \A i \in DOMAIN c.assign : c.assign[i][1] \in LaunchVariables
            \/ /\ c.argv # <<>>
               /\ c.argv[1] \in DOMAIN Builtins
               /\ c.assign = <<>>

\* what /bin/sh -c does with a command line: the simple commands it runs
\* one after the other, or as many of them and then a syntax error.  Of a
\* command line outside ShellReads this is what the shell at hand makes of
\* it (quotes, expansions, comments, patterns, other programs), given
ShellReading(cmd, given) ==
    IF ShellReads(cmd)
    THEN [runs |-> ListCommands(cmd), error |-> FALSE]
    ELSE given

\* the environment of the program a simple command starts
RECURSIVE CommandEnv(_, _)
CommandEnv(e, assign) ==
    IF assign = <<>> THEN e
    ELSE CommandEnv(EnvSet(e, assign[1][1], assign[1][2]), Tail(assign))

\* the exit status of the shell: of a syntax error 2, else that of the
\* last command it ran
ShellStatus(r, last) == IF r.error THEN 2 ELSE last

\* check_call raises CalledProcessError when the child's status is not 0,
\* and an uncaught exception ends the launcher with status 1
CheckCallStatus(status) == IF status # 0 THEN 1 ELSE 0

----------------------------------------------------------------------------
(* torch_xla/distributed/xla_spawn.py                                      *)

\* the option strings of the parser in the order argparse registers them:
\* -h and --help of the parser itself, then --num_gpus
OptionStrings == <<<<45, 104>> (* "-h" *), <<45, 45, 104, 101, 108, 112>> (* "--help" *), <<45,
        45, 110, 117, 109, 95, 103, 112, 117, 115>> (* "--num_gpus" *)>>

ActionOf(option) == IF option = <<45, 45, 110, 117, 109, 95, 103, 112, 117,
        115>> (* "--num_gpus" *) THEN "num_gpus" ELSE "help"

AllDigits(s) == \A i \in DOMAIN s : IsDigit(s[i])

\* argparse's '^-\d+$|^-\d*\.\d+$'; $ also matches before a last newline
IsNegativeNumber(word) ==
    LET s == IF word # <<>> /\ word[Len(word)] = 10 (* "\n" *)
             THEN SubSeq(word, 1, Len(word) - 1) ELSE word
        body == IF s = <<>> THEN <<>> ELSE Tail(s)
        dot == Find(body, 46 (* "." *), 1)
    IN  /\ s # <<>> /\ s[1] = 45 (* "-" *)
        /\ \/ body # <<>> /\ AllDigits(body)
           \/ /\ dot > 0
              /\ AllDigits(SubSeq(body, 1, dot - 1))
              /\ dot < Len(body)
              /\ AllDigits(SubSeq(body, dot + 1, Len(body)))

\* what the parser takes a word for: a positional ("A"), the separator
\* "--" ("-"), or an option ("O") with its action ("none" for an option
\* the parser does not know) and the argument written into the word
Positional == [kind |-> "A", action |-> "none", explicit |-> NoArg]
Separator == [kind |-> "-", action |-> "none", explicit |-> NoArg]
Optional(action, explicit) ==
    [kind |-> "O", action |-> action, explicit |-> explicit]
Ambiguous == [kind |-> "ambiguous", action |-> "none", explicit |-> NoArg]

\* _get_option_tuples: the options a word abbreviates, as pairs of the
\* index of the option and the explicit argument
OptionTuples(word) ==
    LET eq == Find(word, 61 (* "=" *), 1)
        prefix == IF eq > 0 THEN SubSeq(word, 1, eq - 1) ELSE word
        explicit == IF eq > 0 THEN SubSeq(word, eq + 1, Len(word)) ELSE NoArg
    IN  IF Len(word) < 2 THEN {}
        ELSE IF word[2] = 45 (* "-" *)
        THEN {<<k, explicit>> : k \in {j \in DOMAIN OptionStrings :
                                         StartsWith(OptionStrings[j], prefix)}}
        ELSE {<<k, SubSeq(word, 3, Len(word))>> :
                  k \in {j \in DOMAIN OptionStrings :
                            OptionStrings[j] = SubSeq(word, 1, 2)}}
             \cup {<<k, NoArg>> :
                  k \in {j \in DOMAIN OptionStrings :
                            /\ OptionStrings[j] # SubSeq(word, 1, 2)
                            /\ StartsWith(OptionStrings[j], word)}}

\* _parse_optional
Classify(word) ==
    LET eq == Find(word, 61 (* "=" *), 1)
        known == {k \in DOMAIN OptionStrings : OptionStrings[k] = word}
        before == {k \in DOMAIN OptionStrings :
                      eq > 0 /\ OptionStrings[k] = SubSeq(word, 1, eq - 1)}
        tuples == OptionTuples(word)
    IN  IF word = <<>> THEN Positional
        ELSE IF word[1] # 45 (* "-" *) THEN Positional
        ELSE IF known # {}
             THEN Optional(ActionOf(word), NoArg)
        ELSE IF Len(word) = 1 THEN Positional
        ELSE IF before # {}
             THEN Optional(ActionOf(SubSeq(word, 1, eq - 1)),
                           SubSeq(word, eq + 1, Len(word)))
        ELSE IF Cardinality(tuples) > 1 THEN Ambiguous
        ELSE IF Cardinality(tuples) = 1
             THEN LET t == CHOOSE x \in tuples : TRUE
                  IN  Optional(ActionOf(OptionStrings[t[1]]), t[2])
        ELSE IF IsNegativeNumber(word) THEN Positional
        ELSE IF Find(word, 32 (* " " *), 1) > 0 THEN Positional
        ELSE Optional("none", NoArg)

\* the classes of the words: every word after the first "--" is a positional
Classes(argv) ==
    LET seps == {i \in DOMAIN argv : argv[i] = <<45, 45>> (* "--" *)}
        sep == IF seps = {} THEN Len(argv) + 1
               ELSE CHOOSE i \in seps : \A j \in seps : i <= j
    IN  [i \in DOMAIN argv |->
            IF i < sep THEN Classify(argv[i])
            ELSE IF i = sep THEN Separator
            ELSE Positional]

\* ArgumentParser.error: usage message and SystemExit(2)
ParseError ==
    [parsed |-> FALSE, exit |-> 2, num_gpus |-> <<>>,
     training_script |-> <<>>, training_script_args |-> <<>>]

\* the action of -h and --help: help message and SystemExit(0)
ParseHelp ==
    [parsed |-> FALSE, exit |-> 0, num_gpus |-> <<>>,
     training_script |-> <<>>, training_script_args |-> <<>>]

\* the positionals that start at word i: the script is one positional,
\* with a "--" before or after it that is dropped, and the REMAINDER is
\* every word after that
ScriptAt(argv, cls, i) ==
    IF i + 1 <= Len(argv) /\ cls[i].kind = "-"
    THEN [found |-> TRUE, script |-> argv[i + 1], next |-> i + 2]
    ELSE IF i <= Len(argv) /\ cls[i].kind = "A"
    THEN [found |-> TRUE, script |-> argv[i],
          next |-> IF i + 1 <= Len(argv) /\ cls[i + 1].kind = "-"
                   THEN i + 2 ELSE i + 1]
    ELSE [found |-> FALSE, script |-> <<>>, next |-> i]

\* the words are consumed from word i on; n is --num_gpus so far, extras
\* tells that an option the parser does not know was passed over, and
\* limit is the limit of int() in the process
RECURSIVE ParseFrom(_, _, _, _, _, _)
ParseFrom(argv, cls, i, n, extras, limit) ==
    LET pos == ScriptAt(argv, cls, i)
    IN  IF pos.found
        THEN IF extras THEN ParseError
             ELSE [parsed |-> TRUE, exit |-> 0, num_gpus |-> n,
                   training_script |-> pos.script,
                   training_script_args |-> SubSeq(argv, pos.next, Len(argv))]
        ELSE IF i > Len(argv) THEN ParseError
        ELSE IF cls[i].kind # "O" THEN ParseError
        ELSE IF cls[i].action = "none"
             THEN ParseFrom(argv, cls, i + 1, n, TRUE, limit)
        ELSE IF cls[i].action = "help"
             THEN IF cls[i].explicit = NoArg THEN ParseHelp
                  ELSE IF argv[i][2] = 45 (* "-" *) THEN ParseError
                  ELSE IF cls[i].explicit = <<>> THEN ParseError
                  ELSE IF \A j \in DOMAIN cls[i].explicit :
                              cls[i].explicit[j] = 104 (* "h" *)
                       THEN ParseHelp
                  ELSE ParseError
        ELSE IF cls[i].explicit # NoArg
             THEN IF IsInt(cls[i].explicit, limit)
                  THEN ParseFrom(argv, cls, i + 1,
                                 ParseInt(cls[i].explicit), extras, limit)
                  ELSE ParseError
        ELSE IF i + 1 > Len(argv) \/ cls[i + 1].kind # "A" THEN ParseError
        ELSE IF IsInt(argv[i + 1], limit)
             THEN ParseFrom(argv, cls, i + 2, ParseInt(argv[i + 1]), extras,
                            limit)
        ELSE ParseError

\* parse_args on the words after the module name; --num_gpus has default
\* 1, and limit is sys.get_int_max_str_digits() of the process
ParseArgs(argv, limit) ==
    LET cls == Classes(argv)
    IN  IF \E i \in DOMAIN cls : cls[i].kind = "ambiguous" THEN ParseError
        ELSE ParseFrom(argv, cls, 1, <<49>> (* "1" *), FALSE, limit)

\* importlib.import_module(mod_name): "ok" when the module of the script is
\* found, runs and has _mp_fn, "no_mp_fn" when it runs and has none,
\* "raises" when it raises an exception, "missing" when it is not found
ImportModule(script, mods) ==
    IF script \in DOMAIN mods THEN mods[script] ELSE "missing"

\* nprocs of xmp.spawn(mod._mp_fn, args=(), nprocs=args.num_gpus)
SpawnNprocs(args) == args.num_gpus

\* sys.argv = [args.training_script] + args.training_script_args
PatchedArgv(args) == <<args.training_script>> \o args.training_script_args

\* xmp.spawn: one process per index 0 .. nprocs-1, started in index order;
\* a count that is not positive leaves no index
XmpSpawnOrdinals(n) == [i \in 1..Number(n) |-> i - 1]

\* xmp.spawn joins every process; it returns when all of them exited 0 and
\* raises otherwise, and the exception ends xla_spawn with status 1
XmpJoinStatus(status) ==
    IF \A k \in DOMAIN status : status[k] = 0 THEN 0 ELSE 1
----------------------------------------------------------------------------
(* torch_xla/__training_compiler__.py                                      *)

SM_TRAINING_COMPILER_PREFIX == <<115, 97, 103, 101, 109, 97, 107, 101, 114, 95,
        116, 114, 97, 105, 110, 105, 110, 103, 95, 99, 111, 109, 112, 105, 108,
        101, 114, 95>> (* "sagemaker_training_compiler_" *)
HP_ENABLE_COMPILER == SM_TRAINING_COMPILER_PREFIX \o <<101, 110, 97, 98, 108,
        101, 100>> (* "enabled" *)
HP_ENABLE_DEBUG == SM_TRAINING_COMPILER_PREFIX \o <<100, 101, 98, 117, 103, 95,
        109, 111, 100, 101>> (* "debug_mode" *)

\* the values json.loads returns: bool, str, int and float (s is the
\* repr), None, list and dict (n is the len)
PyBool(b) == [t |-> "bool", b |-> b, s |-> <<>>, n |-> 0]
PyStr(s) == [t |-> "str", b |-> FALSE, s |-> s, n |-> 0]
PyInt(s) == [t |-> "int", b |-> FALSE, s |-> s, n |-> 0]
PyFloat(s) == [t |-> "float", b |-> FALSE, s |-> s, n |-> 0]
PyNone == [t |-> "none", b |-> FALSE, s |-> <<>>, n |-> 0]
PyList(n) == [t |-> "list", b |-> FALSE, s |-> <<>>, n |-> n]
PyDict(n) == [t |-> "dict", b |-> FALSE, s |-> <<>>, n |-> n]

\* bool(v)
PyTruthy(v) ==
    CASE v.t = "bool" -> v.b
      [] v.t = "str" -> v.s # <<>>
      [] v.t = "int" -> v.s # <<48>> (* "0" *)
      [] v.t = "float" -> v.s \notin {<<48, 46, 48>> (* "0.0" *), <<45, 48, 46,
              48>> (* "-0.0" *)}
      [] v.t \in {"list", "dict"} -> v.n # 0
      [] OTHER -> FALSE

\* json.loads is a function of the library; what it does with the text of
\* a str comes with the str: it returns a value, or raises JSONDecodeError,
\* or ValueError (an integer of too many digits), or RecursionError
Raises(name) == [raised |-> name, value |-> PyNone]
Undecodable == Raises("JSONDecodeError")
Decodes(v) == [raised |-> "none", value |-> v]

\* one key of the object in SM_FRAMEWORK_PARAMS with its value
Param(key, raw, json) == [key |-> key, raw |-> raw, json |-> json]

\* _load: json.loads of a str, the str itself when that raises
\* JSONDecodeError, and any other value as it is; another exception of
\* json.loads is not caught
Load(p) ==
    IF p.raw.t # "str" THEN Decodes(p.raw)
    ELSE IF p.json.raised = "JSONDecodeError" THEN Decodes(p.raw)
    ELSE p.json

\* the dict comprehension over a dict: the keys with the compiler prefix in
\* the order of the object, values decoded, up to the first that raises
RECURSIVE DictParams(_, _, _)
DictParams(items, i, params) ==
    IF i > Len(items) THEN [raised |-> "none", params |-> params]
    ELSE IF ~StartsWith(items[i].key, SM_TRAINING_COMPILER_PREFIX)
    THEN DictParams(items, i + 1, params)
    ELSE IF Load(items[i]).raised # "none"
    THEN [raised |-> Load(items[i]).raised, params |-> params]
    ELSE DictParams(items, i + 1,
                    (items[i].key :> Load(items[i]).value) @@ params)

\* the comprehension over a list: an element that is no str has no
\* startswith, and a str with the prefix is no index of a list
RECURSIVE ListParams(_, _)
ListParams(items, i) ==
    IF i > Len(items) THEN [raised |-> "none", params |-> <<>>]
    ELSE IF items[i].t # "str"
    THEN [raised |-> "AttributeError", params |-> <<>>]
    ELSE IF StartsWith(items[i].s, SM_TRAINING_COMPILER_PREFIX)
    THEN [raised |-> "TypeError", params |-> <<>>]
    ELSE ListParams(items, i + 1)

\* self.params of what json.loads made of SM_FRAMEWORK_PARAMS: an object,
\* a list, a str (no character of it has the prefix), or a value that
\* cannot be iterated
CompilerParams(all_params) ==
    CASE all_params.t = "dict" -> DictParams(all_params.items, 1, <<>>)
      [] all_params.t = "list" -> ListParams(all_params.items, 1)
      [] all_params.t = "str" -> [raised |-> "none", params |-> <<>>]
      [] OTHER -> [raised |-> "TypeError", params |-> <<>>]

\* dict.get
ParamGet(params, key, default) ==
    IF key \in DOMAIN params THEN params[key] ELSE default

\* map_hp_to_config: self.debug is assigned only when self.enabled is true,
\* and the f-string of the last line reads self.debug in every case
MapHpToConfig(params) ==
    LET enabled == ParamGet(params, HP_ENABLE_COMPILER, PyBool(FALSE))
    IN  IF PyTruthy(enabled)
        THEN [enabled |-> enabled,
              debug |-> ParamGet(params, HP_ENABLE_DEBUG, PyBool(FALSE)),
              raised |-> "none"]
        ELSE [enabled |-> enabled, debug |-> PyNone,
              raised |-> "AttributeError"]

\* _set_flags: never replaces a value that is set and not empty
SetFlags(e, key, value) ==
    IF Truthy(EnvGet(e, key, <<>>)) THEN e ELSE EnvSet(e, key, value)

\* os.path.join of a directory and a relative name
PathJoin(dir, name) ==
    IF dir = <<>> THEN name
    ELSE IF dir[Len(dir)] = 47 (* "/" *) THEN dir \o name
    ELSE dir \o <<47>> (* "/" *) \o name

DEBUG_PATH(e) == PathJoin(EnvGet(e, SM_OUTPUT_DATA_DIR, <<>>), <<99, 111, 109,
        112, 105, 108, 101, 114>> (* "compiler" *))

SetDebugFlags(e) ==
    LET e1 == SetFlags(e, PT_XLA_DEBUG, Str(1))
        e2 == SetFlags(e1, XLA_IR_DEBUG, Str(1))
        e3 == SetFlags(e2, XLA_HLO_DEBUG, Str(1))
        e4 == SetFlags(e3, XLA_SAVE_TENSORS_FILE,
                       PathJoin(DEBUG_PATH(e), <<88, 76, 65, 95, 83, 65, 86,
                               69, 95, 84, 69, 78, 83, 79, 82, 83, 95, 70, 73,
                               76, 69, 46, 104, 108, 111>> (* "XLA_SAVE_TENSORS_FILE.hlo" *)))
        e5 == SetFlags(e4, XLA_SAVE_TENSORS_FMT, <<104, 108, 111>> (* "hlo" *))
        e6 == SetFlags(e5, XLA_METRICS_FILE,
                       PathJoin(DEBUG_PATH(e), <<88, 76, 65, 95, 77, 69, 84,
                               82, 73, 67, 83, 95, 70, 73, 76, 69, 46, 116,
                               120, 116>> (* "XLA_METRICS_FILE.txt" *)))
        e7 == SetFlags(e6, XLA_SAVE_HLO_FILE,
                       PathJoin(DEBUG_PATH(e), <<88, 76, 65, 95, 83, 65, 86,
                               69, 95, 72, 76, 79, 95, 70, 73, 76, 69, 46, 104,
                               108, 111>> (* "XLA_SAVE_HLO_FILE.hlo" *)))
        e8 == SetFlags(e7, XLA_DUMP_FATAL_STACK, Str(1))
    IN  SetFlags(e8, XLA_DUMP_HLO_GRAPH, Str(1))

\* the default device count the flag layer asks for
DefaultDeviceCount(e) == SetFlags(e, GPU_NUM_DEVICES, Str(1))

\* configure_compiler; device is what torch.cuda.get_device_name() does:
\* "t4" for a name that starts with "Tesla T4", "other" for another name,
\* "raises" when there is no device to name; makedirs is the exception
\* os.makedirs of the debug directory raises, or "none"
ConfigureCompiler(e, cfg, device, makedirs) ==
    IF PyTruthy(cfg.enabled)
    THEN LET e1 == DefaultDeviceCount(e)
             e2 == IF device = "t4"
                   THEN SetFlags(e1, XLA_FIX_DIV_FP64, Str(1)) ELSE e1
             e3 == IF PyTruthy(cfg.debug) THEN SetDebugFlags(e2) ELSE e2
         IN  IF device = "raises"
             THEN [env |-> e1, raised |-> "RuntimeError", configured |-> FALSE]
             ELSE IF PyTruthy(cfg.debug) /\ makedirs # "none"
             THEN [env |-> e2, raised |-> makedirs, configured |-> FALSE]
             ELSE [env |-> SetFlags(e3, SM_TRAINING_COMPILER_CONFIGURED,
                                    Str(1)),
                   raised |-> "none", configured |-> TRUE]
    ELSE [env |-> e, raised |-> "none", configured |-> FALSE]

\* _get_logger: int(os.environ.get('SM_LOG_LEVEL', '20')) raises ValueError
\* for a text that is no int; limit is sys.get_int_max_str_digits()
GetLogger(e, limit) ==
    IF IsInt(EnvGet(e, SM_LOG_LEVEL, <<50, 48>> (* "20" *)), limit)
    THEN "none" ELSE "ValueError"

\* is_already_configured: bool(int(os.environ.get(..., '0')))
IsAlreadyConfigured(e, limit) ==
    LET text == EnvGet(e, SM_TRAINING_COMPILER_CONFIGURED, <<48>> (* "0" *))
    IN  IF IsInt(text, limit)
        THEN [raised |-> "none", value |-> ParseInt(text) # <<48>> (* "0" *)]
        ELSE [raised |-> "ValueError", value |-> FALSE]

\* TrainingCompilerConfig.__init__; hp is what SM_FRAMEWORK_PARAMS holds
\* and what json.loads and json.dumps do with it, limit is
\* sys.get_int_max_str_digits() of the process.  The result: the
\* environment, the exception raised, whether the flags were set
TrainingCompilerConfigInit(e, limit, hp, device, makedirs) ==
    LET quiet == [env |-> e, raised |-> "none", configured |-> FALSE]
        loaded == CompilerParams(hp.value)
        cfg == MapHpToConfig(loaded.params)
        logger == GetLogger(e, limit)
        configured == IsAlreadyConfigured(e, limit)
    IN  IF logger # "none"
        THEN [quiet EXCEPT !.raised = logger]
        ELSE IF configured.raised # "none"
        THEN [quiet EXCEPT !.raised = configured.raised]
        ELSE IF configured.value THEN quiet
        ELSE IF hp.state \in {"unset", "empty"} THEN quiet
        ELSE IF hp.state = "raises"
        THEN [quiet EXCEPT !.raised = hp.raised]
        ELSE IF loaded.raised # "none"
        THEN [quiet EXCEPT !.raised = loaded.raised]
        ELSE IF DOMAIN loaded.params = {} THEN quiet
        ELSE IF hp.dumps # "none"
        THEN [quiet EXCEPT !.raised = hp.dumps]
        ELSE IF cfg.raised # "none"
        THEN [quiet EXCEPT !.raised = cfg.raised]
        ELSE ConfigureCompiler(e, cfg, device, makedirs)
----------------------------------------------------------------------------
(* Inputs of a launch                                                      *)

Range(f) == {f[x] : x \in DOMAIN f}

SeqUpTo(T, n) == UNION {[1..k -> T] : k \in 0..n}

HostNames == {<<104, 48>> (* "h0" *), <<104, 49>> (* "h1" *)}

\* the manifests that have both fields
Manifests ==
    {[state |-> "ok", config |-> ("current_host" :> c @@ "hosts" :> hs)] :
        c \in HostNames \cup {<<104, 120>> (* "hx" *)}, hs \in SeqUpTo(HostNames, MaxHosts)}

\* no file, a file that is not JSON, an object without one of the fields
BrokenManifests ==
    {[state |-> "missing", config |-> <<>>],
     [state |-> "invalid", config |-> <<>>],
     [state |-> "ok", config |-> ("current_host" :> <<104, 48>> (* "h0" *))],
     [state |-> "ok", config |-> ("hosts" :> <<<<104, 48>> (* "h0" *)>>)]}

OneHost ==
    [state |-> "ok",
     config |-> ("current_host" :> <<104, 48>> (* "h0" *) @@ "hosts" :> <<<<104,
             48>> (* "h0" *)>>)]

\* the device counts of the model as --num_gpus writes them
GpuCounts == {Str(n) : n \in 1..MaxGpus}

\* texts of --num_gpus that int() reads as a count, reads as 0, rejects
OddGpuCounts == {<<43, 50>> (* "+2" *), <<48>> (* "0" *), <<120>> (* "x" *)}

training_script == <<116, 114, 97, 105, 110, 46, 112, 121>> (* "train.py" *)

Flags == {<<45, 45, 97>> (* "--a" *), <<45, 45, 98>> (* "--b" *), <<45, 45, 99>> (* "--c" *)}

\* values: the two the forwarder knows, plain ones, one of two words, and
\* two that end the command of the shell and start another
Values == {<<84, 114, 117, 101>> (* "True" *), <<70, 97, 108, 115, 101>> (* "False" *), <<53>> (* "5" *), <<116,
        114, 117, 101>> (* "true" *), <<53, 32, 54>> (* "5 6" *), <<120, 59,
        116, 114, 117, 101>> (* "x;true" *), <<120, 59, 102, 97, 108, 115, 101>> (* "x;false" *)}

\* the flat lists of k strings that alternate a flag and a value
RECURSIVE AlternatingLists(_)
AlternatingLists(k) ==
    IF k = 0 THEN {<<>>}
    ELSE {Append(l, x) : l \in AlternatingLists(k - 1),
                         x \in IF k % 2 = 1 THEN Flags ELSE Values}

ArgLists == UNION {AlternatingLists(k) : k \in 0..MaxFwdArgs}

SomeArgLists == {<<>>, <<<<45, 45, 97>> (* "--a" *)>>, <<<<45, 45, 97>> (* "--a" *), <<53>> (* "5" *)>>}

\* values that hold a launch of their own after a semicolon
SecondLaunch ==
    <<49, 59, 112, 121, 116, 104, 111, 110, 32, 45, 109, 32, 116, 111, 114, 99,
            104, 95, 120, 108, 97, 46, 100, 105, 115, 116, 114, 105, 98, 117,
            116, 101, 100, 46, 120, 108, 97, 95, 115, 112, 97, 119, 110, 32,
            45, 45, 110, 117, 109, 95, 103, 112, 117, 115, 32, 50, 32, 116,
            114, 97, 105, 110, 46, 112, 121>> (* "1;python -m torch_xla.distributed.xla_spawn --num_gpus 2 train.py" *)

SecondLaunchWithCount ==
    <<49, 59, 71, 80, 85, 95, 78, 85, 77, 95, 68, 69, 86, 73, 67, 69, 83, 61,
            57, 32, 112, 121, 116, 104, 111, 110, 32, 45, 109, 32, 116, 111,
            114, 99, 104, 95, 120, 108, 97, 46, 100, 105, 115, 116, 114, 105,
            98, 117, 116, 101, 100, 46, 120, 108, 97, 95, 115, 112, 97, 119,
            110, 32>> (* "1;GPU_NUM_DEVICES=9 python -m torch_xla.distributed.xla_spawn " *)
        \o <<45, 45, 110, 117, 109, 95, 103, 112, 117, 115, 32, 50, 32, 116,
                114, 97, 105, 110, 46, 112, 121>> (* "--num_gpus 2 train.py" *)

ListArgLists ==
    {<<<<45, 45, 97>> (* "--a" *), SecondLaunch>>, <<<<45, 45, 97>> (* "--a" *), SecondLaunchWithCount>>,
     <<<<45, 45, 97>> (* "--a" *), <<120, 59, 116, 114, 117, 101>> (* "x;true" *)>>, <<<<45,
             45, 97>> (* "--a" *), <<120, 59, 102, 97, 108, 115, 101>> (* "x;false" *)>>}

\* a reading that is never looked at: the command is one the model reads
NoReading == [runs |-> <<>>, error |-> FALSE]

\* argument lists whose command the shell does more with than split it,
\* with what /bin/sh does: a quoted value is one word without the quotes,
\* an open parenthesis is a syntax error before anything is run
GivenLaunches ==
    {[args |-> <<<<45, 45, 99>> (* "--c" *), <<39, 53, 32, 54, 39>> (* "\'5 6\'" *)>>,
      reading |-> [runs |-> <<[assign |-> <<>>,
                              argv |-> <<<<112, 121, 116, 104, 111, 110>> (* "python" *), <<45,
                                      109>> (* "-m" *),
                                         <<116, 111, 114, 99, 104, 95, 120,
                                                 108, 97, 46, 100, 105, 115,
                                                 116, 114, 105, 98, 117, 116,
                                                 101, 100, 46, 120, 108, 97,
                                                 95, 115, 112, 97, 119, 110>> (* "torch_xla.distributed.xla_spawn" *),
                                         <<45, 45, 110, 117, 109, 95, 103, 112,
                                                 117, 115>> (* "--num_gpus" *), <<49>> (* "1" *), <<116,
                                                 114, 97, 105, 110, 46, 112,
                                                 121>> (* "train.py" *),
                                         <<45, 45, 99>> (* "--c" *), <<53, 32,
                                                 54>> (* "5 6" *)>>,
                              status |-> -1]>>,
                   error |-> FALSE]],
     [args |-> <<<<45, 45, 99>> (* "--c" *), <<40>> (* "(" *)>>,
      reading |-> [runs |-> <<>>, error |-> TRUE]]}

\* a name that is not set; no str equals it
Unset == <<-2>>

\* the environments that give each name one of its options
Environments(options) ==
    {[k \in {n \in DOMAIN f : f[n] # Unset} |-> f[k]] :
        f \in {g \in [DOMAIN options -> UNION Range(options)] :
                  \A n \in DOMAIN options : g[n] \in options[n]}}

TopologyEnvironments ==
    Environments(
        SM_NUM_GPUS :> {Unset, Str(MaxGpus)}
     @@ GPU_NUM_DEVICES :> {Unset, Str(8)}
     @@ XRT_MESH_SERVICE_ADDRESS :> {Unset, <<115, 116, 97, 108, 101, 58, 49>> (* "stale:1" *)}
     @@ XRT_HOST_ORDINAL :> {Unset, Str(7)}
     @@ XRT_SHARD_WORLD_SIZE :> {Unset, Str(9)})

PlainEnvironment == SM_NUM_GPUS :> Str(1)

CompilerEnvironments ==
    Environments(
        SM_NUM_GPUS :> {Str(1)}
     @@ GPU_NUM_DEVICES :> {Unset, <<>>, Str(8)}
     @@ SM_TRAINING_COMPILER_CONFIGURED :> {Unset, Str(0), Str(1), <<120>> (* "x" *)}
     @@ SM_LOG_LEVEL :> {Unset, <<100, 101, 98, 117, 103>> (* "debug" *)}
     @@ PT_XLA_DEBUG :> {Unset, Str(0)}
     @@ SM_OUTPUT_DATA_DIR :> {Unset, <<47, 111, 112, 116, 47, 109, 108, 47,
             111, 117, 116, 112, 117, 116, 47, 100, 97, 116, 97>> (* "/opt/ml/output/data" *)})

\* what importing the module of the training script does; a path that is
\* not in the function has no module
Modules ==
    {training_script :> s : s \in {"ok", "no_mp_fn", "raises"}} \cup {<<>>}

\* what SM_FRAMEWORK_PARAMS holds: state tells whether it is not set
\* ("unset"), the empty string ("empty"), a text of which json.loads raises
\* the exception raised ("raises"), or one of which it returns value
\* ("loaded"); dumps is the exception json.dumps of self.params raises
FrameworkParam(state, raised, value) ==
    [state |-> state, raised |-> raised, value |-> value, dumps |-> "none"]

\* the values at the top of a JSON text: an object with its keys in the
\* order of the text, a list with its elements, and the others
JsonObject(items) == [t |-> "dict", items |-> items]
JsonList(items) == [t |-> "list", items |-> items]
JsonOther(t) == [t |-> t, items |-> <<>>]

NotSet == FrameworkParam("unset", "none", JsonOther("none"))

\* a value that is no str, for which json.loads is not called
Value(key, v) == Param(key, v, Undecodable)

\* a str with what json.loads does with it
Text(key, s, json) == Param(key, PyStr(s), json)

\* brackets nested deeper than the recursion limit of the interpreter
DeepNesting == 2000

\* no key of an option
NoParam == Param(<<>>, PyNone, Undecodable)

\* the objects that have, in the order of the options, one of the options
\* of each key or none
RECURSIVE ParamObjects(_)
ParamObjects(options) ==
    IF options = <<>> THEN {<<>>}
    ELSE {(IF p = NoParam THEN <<>> ELSE <<p>>) \o rest :
             p \in options[1], rest \in ParamObjects(Tail(options))}

\* SM_FRAMEWORK_PARAMS is not set, is the empty string, is no JSON, has an
\* integer of more digits than the limit of int()
NoFrameworkParams ==
    {NotSet,
     FrameworkParam("empty", "none", JsonOther("none")),
     FrameworkParam("raises", "JSONDecodeError", JsonOther("none")),
     FrameworkParam("raises", "ValueError", JsonOther("none"))}

\* SM_FRAMEWORK_PARAMS is JSON and no object
OtherFrameworkParams ==
    {FrameworkParam("loaded", "none", v) :
        v \in {JsonOther("str"), JsonOther("int"), JsonOther("none"),
               JsonList(<<>>), JsonList(<<PyStr(<<101, 112, 111, 99, 104, 115>> (* "epochs" *))>>),
               JsonList(<<PyStr(HP_ENABLE_COMPILER)>>),
               JsonList(<<PyInt(<<49>> (* "1" *))>>)}}

FrameworkParams ==
    {FrameworkParam("loaded", "none", JsonObject(o)) :
        o \in ParamObjects(<<
            {NoParam, Value(HP_ENABLE_COMPILER, PyBool(TRUE)),
             Value(HP_ENABLE_COMPILER, PyBool(FALSE)),
             Text(HP_ENABLE_COMPILER, <<102, 97, 108, 115, 101>> (* "false" *), Decodes(PyBool(FALSE))),
             Text(HP_ENABLE_COMPILER, <<70, 97, 108, 115, 101>> (* "False" *), Undecodable),
             Text(HP_ENABLE_COMPILER, <<48>> (* "0" *), Decodes(PyInt(<<48>> (* "0" *)))),
             Text(HP_ENABLE_COMPILER, <<48, 46, 48>> (* "0.0" *), Decodes(PyFloat(<<48,
                     46, 48>> (* "0.0" *)))),
             Text(HP_ENABLE_COMPILER, <<91, 32, 93>> (* "[ ]" *), Decodes(PyList(0))),
             Text(HP_ENABLE_COMPILER, <<110, 117, 108, 108>> (* "null" *), Decodes(PyNone)),
             Text(HP_ENABLE_COMPILER, <<34, 34>> (* """" *), Decodes(PyStr(<<>>))),
             Text(HP_ENABLE_COMPILER, [i \in 1..DeepNesting |-> 91 (* "[" *)],
                  Raises("RecursionError"))},
            {NoParam, Value(HP_ENABLE_DEBUG, PyBool(TRUE)),
             Text(HP_ENABLE_DEBUG, <<48>> (* "0" *), Decodes(PyInt(<<48>> (* "0" *))))},
            {NoParam, Text(<<101, 112, 111, 99, 104, 115>> (* "epochs" *), <<51>> (* "3" *), Decodes(PyInt(<<51>> (* "3" *))))}>>)}
        \cup NoFrameworkParams \cup OtherFrameworkParams

SomeFrameworkParams ==
    {NotSet,
     FrameworkParam("loaded", "none",
         JsonObject(<<Value(HP_ENABLE_COMPILER, PyBool(TRUE)),
                      Value(HP_ENABLE_DEBUG, PyBool(TRUE))>>)),
     FrameworkParam("loaded", "none",
         JsonObject(<<Value(HP_ENABLE_DEBUG, PyBool(TRUE))>>))}

\* what torch.cuda.get_device_name() does in a process
Devices == {"t4", "other", "raises"}

\* what os.makedirs of the debug directory does in a process: the
\* exception it raises, or "none".  The directory may not be writable, a
\* part of the path may be a file or may not allow a directory in it, the
\* name "compiler" may be that of a file, and the file system may refuse
\* for another reason (a name too long, no space)
MakeDirs ==
    {"none", "PermissionError", "NotADirectoryError", "FileNotFoundError",
     "FileExistsError", "OSError"}

\* a text of n digits
Ones(n) == [i \in 1..n |-> 49 (* "1" *)]

\* launches in which PYTHONINTMAXSTRDIGITS is set: a log level of one
\* digit more than the limit, a log level of more digits than the default
\* with no limit and with a larger one, and texts that set no limit
LimitLaunches ==
    {[count |-> NoArg,
      env |-> SM_NUM_GPUS :> Str(1) @@ PYTHONINTMAXSTRDIGITS :> l.limit
                  @@ SM_LOG_LEVEL :> Ones(l.digits)] :
        l \in {[limit |-> <<54, 52, 48>> (* "640" *), digits |-> str_digits_check_threshold + 1],
               [limit |-> <<48>> (* "0" *), digits |-> default_max_str_digits + 1],
               [limit |-> <<32, 43, 48, 53, 48, 48, 48>> (* " +05000" *), digits |-> default_max_str_digits + 1],
               [limit |-> <<32, 43, 48, 53, 48, 48, 48>> (* " +05000" *), digits |-> 5001]}}
    \cup {[count |-> NoArg,
           env |-> SM_NUM_GPUS :> Str(1) @@ PYTHONINTMAXSTRDIGITS :> limit] :
             limit \in {<<53>> (* "5" *), <<54, 52, 48, 32>> (* "640 " *), <<45,
                     49>> (* "-1" *), <<50, 49, 52, 55, 52, 56, 51, 54, 52, 56>> (* "2147483648" *), <<>>}}

\* a launch with a device count of one digit more than the limit
LongCountLaunch ==
    [count |-> Ones(str_digits_check_threshold + 1),
     env |-> SM_NUM_GPUS :> Str(1) @@ PYTHONINTMAXSTRDIGITS :> <<54, 52, 48>> (* "640" *)]

----------------------------------------------------------------------------
----------------------------------------------------------------------------
(* The launch                                                              *)

InitWith(counts, scripts, manifests, arglists, params, mods, envs, readings) ==
    /\ argv_num_gpus \in counts
    /\ argv_script \in scripts
    /\ manifest \in manifests
    /\ rem_args \in arglists
    /\ framework_params \in params
    /\ modules \in mods
    /\ shell \in readings
    /\ env0 \in envs
    /\ env = env0
    /\ pc = "start"
    /\ max_str_digits = -1
    /\ error = "none"
    /\ num_gpus = NoArg
    /\ training_command = <<>>
    /\ launches = 0
    /\ call_env = <<>>
    /\ reading = NoReading
    /\ run = 0
    /\ last_status = 0
    /\ sys_argv = <<>>
    /\ spawn_calls = 0
    /\ nprocs = <<>>
    /\ workers = <<>>
    /\ compiler_runs = {}
    /\ child_status = -1
    /\ exit_status = -1

\* every manifest in every environment; in one environment every way in
\* which the command line, the hyper-parameters and the script differ; the
\* launches of which the reading of the shell is given; and the launches
\* in which the limit of int() is set
Init ==
    \/ InitWith({NoArg} \cup GpuCounts, {training_script},
                Manifests \cup BrokenManifests, {<<>>}, {NotSet},
                {training_script :> "ok"}, TopologyEnvironments, {NoReading})
    \/ InitWith(GpuCounts \cup OddGpuCounts, {training_script, NoArg},
                {OneHost}, SomeArgLists \cup ListArgLists,
                SomeFrameworkParams, Modules, {PlainEnvironment}, {NoReading})
    \/ \E g \in GivenLaunches :
        InitWith({NoArg}, {training_script}, {OneHost}, {g.args}, {NotSet},
                 {training_script :> "ok"}, {PlainEnvironment}, {g.reading})
    \/ \E l \in LimitLaunches :
        InitWith({l.count}, {training_script}, {OneHost}, {<<>>}, {NotSet},
                 {training_script :> "ok"}, {l.env}, {NoReading})

InitArgs ==
    \/ InitWith({NoArg}, {training_script}, {OneHost}, ArgLists, {NotSet},
                {training_script :> "ok"}, {PlainEnvironment}, {NoReading})
    \/ InitWith({LongCountLaunch.count}, {training_script}, {OneHost},
                {<<>>, <<<<45, 45, 97>> (* "--a" *), <<53>> (* "5" *)>>}, {NotSet}, {training_script :> "ok"},
                {LongCountLaunch.env}, {NoReading})

InitCompiler ==
    \/ InitWith(GpuCounts, {training_script}, {OneHost}, {<<>>},
                FrameworkParams, {training_script :> "ok"},
                CompilerEnvironments, {NoReading})
    \/ \E l \in LimitLaunches :
        InitWith({l.count}, {training_script}, {OneHost}, {<<>>},
                 SomeFrameworkParams, {training_script :> "ok"}, {l.env},
                 {NoReading})

\* the workers the running call of xmp.spawn has started
Started == {k \in DOMAIN workers : workers[k].call = spawn_calls}

\* the interpreter of the launcher or of xla_spawn starts: it reads the
\* limit of int() from the environment of the process, and a text that
\* sets no limit ends the process with status 1
PythonStart ==
    /\ pc \in {"start", "child_start"}
    /\ LET r == IntMaxStrDigits(env)
           launcher == (pc = "start")
       IN  /\ max_str_digits' = IF r.fatal THEN max_str_digits ELSE r.limit
           /\ pc' = IF r.fatal
                    THEN (IF launcher THEN "done" ELSE "child_exit")
                    ELSE (IF launcher THEN "import" ELSE "child_import")
           /\ error' = IF r.fatal /\ launcher THEN "Fatal Python error"
                       ELSE error
           /\ exit_status' = IF r.fatal /\ launcher THEN 1 ELSE exit_status
           /\ child_status' = IF r.fatal /\ ~launcher THEN 1 ELSE child_status
    /\ UNCHANGED inputs
    /\ UNCHANGED <<env, num_gpus, training_command, launches, call_env,
                   reading, run, last_status, sys_argv, spawn_calls, nprocs,
                   workers, compiler_runs>>

\* import of the torch_xla package runs TrainingCompilerConfig() once in the
\* process: in the launcher before sm_dist's main, in xla_spawn before main
ImportTrainingCompiler ==
    /\ pc \in {"import", "child_import"}
    /\ \E device \in Devices, makedirs \in MakeDirs :
        LET r == TrainingCompilerConfigInit(env, max_str_digits,
                                            framework_params, device, makedirs)
            launcher == (pc = "import")
            raised == r.raised # "none"
        IN  /\ env' = r.env
            /\ compiler_runs' =
                   IF r.configured
                   THEN compiler_runs \cup {IF launcher THEN "launcher" ELSE "xla_spawn"}
                   ELSE compiler_runs
            /\ pc' = IF raised
                     THEN (IF launcher THEN "done" ELSE "child_exit")
                     ELSE (IF launcher THEN "main" ELSE "child_main")
            /\ error' = IF raised /\ launcher THEN r.raised ELSE error
            /\ exit_status' = IF raised /\ launcher THEN 1 ELSE exit_status
            /\ child_status' = IF raised /\ ~launcher THEN 1 ELSE child_status
    /\ UNCHANGED inputs
    /\ UNCHANGED max_str_digits
    /\ UNCHANGED <<num_gpus, training_command, launches, call_env, reading,
                   run, last_status, sys_argv, spawn_calls, nprocs, workers>>

\* sm_dist.py lines 17-27: the parser and its defaults
SmDistParseArgs ==
    /\ pc \in {"import", "main"}
    /\ LET r == ParseKnownArgs(env, argv_num_gpus)
       IN  /\ num_gpus' = r.num_gpus
           /\ pc' = IF r.raised # "none" THEN "done" ELSE "parsed"
           /\ error' = IF r.raised # "none" THEN r.raised ELSE error
           /\ exit_status' = IF r.raised # "none" THEN 1 ELSE exit_status
    /\ UNCHANGED inputs
    /\ UNCHANGED max_str_digits
    /\ UNCHANGED <<env, training_command, launches, call_env, reading, run,
                   last_status, sys_argv, spawn_calls, nprocs, workers,
                   compiler_runs, child_status>>

\* sm_dist.py lines 29-45: the manifest is read, then topology and device
\* count go into os.environ
SmDistEnvironment ==
    /\ pc = "parsed"
    /\ LET raised == ReadManifest(manifest)
       IN  IF raised # "none"
           THEN /\ error' = raised
                /\ exit_status' = 1
                /\ pc' = "done"
                /\ UNCHANGED env
           ELSE /\ env' = SetDeviceCount(SetTopology(env, manifest.config),
                                         num_gpus)
                /\ pc' = "command"
                /\ UNCHANGED <<error, exit_status>>
    /\ UNCHANGED inputs
    /\ UNCHANGED max_str_digits
    /\ UNCHANGED <<num_gpus, training_command, launches, call_env, reading,
                   run, last_status, sys_argv, spawn_calls, nprocs, workers,
                   compiler_runs, child_status>>

\* sm_dist.py lines 46-58: the command line of the launch
SmDistCommand ==
    /\ pc = "command"
    /\ LET r == BuildCommand(num_gpus, argv_script, rem_args)
           raised == r.raised # "none"
       IN  /\ training_command' = IF raised THEN training_command ELSE r.command
           /\ pc' = IF raised THEN "done" ELSE "call"
           /\ error' = IF raised THEN r.raised ELSE error
           /\ exit_status' = IF raised THEN 1 ELSE exit_status
    /\ UNCHANGED inputs
    /\ UNCHANGED max_str_digits
    /\ UNCHANGED <<env, num_gpus, launches, call_env, reading, run,
                   last_status, sys_argv, spawn_calls, nprocs, workers,
                   compiler_runs, child_status>>

\* sm_dist.py line 60: check_call hands the command to /bin/sh -c, which
\* inherits os.environ, and waits for the shell
CheckCall ==
    /\ pc = "call"
    /\ launches' = launches + 1
    /\ call_env' = env
    /\ reading' = ShellReading(training_command, shell)
    /\ run' = 0
    /\ last_status' = 0
    /\ pc' = "shell"
    /\ UNCHANGED inputs
    /\ UNCHANGED max_str_digits
    /\ UNCHANGED <<env, error, num_gpus, training_command, sys_argv,
                   spawn_calls, nprocs, workers, compiler_runs, child_status,
                   exit_status>>

\* the shell runs its next command: it starts the xla_spawn process in the
\* environment of the launcher with the assignments of the command, or it
\* runs a command that is not the launcher of the workers
ShellRun ==
    /\ pc = "shell"
    /\ run < Len(reading.runs)
    /\ run' = run + 1
    /\ LET c == reading.runs[run + 1]
       IN  IF XlaSpawnCommand(c.argv)
           THEN /\ env' = CommandEnv(call_env, c.assign)
                /\ pc' = "child_start"
                /\ UNCHANGED last_status
           ELSE /\ last_status' = c.status
                /\ UNCHANGED <<env, pc>>
    /\ UNCHANGED inputs
    /\ UNCHANGED max_str_digits
    /\ UNCHANGED <<error, num_gpus, training_command, launches, call_env,
                   reading, sys_argv, spawn_calls, nprocs, workers,
                   compiler_runs, child_status, exit_status>>

\* xla_spawn.main: parse the command line, import the script, patch
\* sys.argv, call xmp.spawn.  A usage error ends the process with status 2
\* and --help with status 0; an exception of the import ends it with
\* status 1 before sys.argv is patched, a module without _mp_fn after
\* that.  xmp.spawn starts the workers, or it cannot create a worker and
\* raises before any is started, which ends the process with status 1
XlaSpawnMain ==
    /\ pc \in {"child_import", "child_main"}
    /\ LET words == reading.runs[run].argv
           args == ParseArgs(SubSeq(words, 4, Len(words)), max_str_digits)
           mod == ImportModule(args.training_script, modules)
       IN  IF ~args.parsed
           THEN /\ child_status' = args.exit
                /\ pc' = "child_exit"
                /\ UNCHANGED <<sys_argv, spawn_calls, nprocs>>
           ELSE IF mod \in {"missing", "raises"}
           THEN /\ child_status' = 1
                /\ pc' = "child_exit"
                /\ UNCHANGED <<sys_argv, spawn_calls, nprocs>>
           ELSE IF mod = "no_mp_fn"
           THEN /\ sys_argv' = PatchedArgv(args)
                /\ child_status' = 1
                /\ pc' = "child_exit"
                /\ UNCHANGED <<spawn_calls, nprocs>>
           ELSE /\ sys_argv' = PatchedArgv(args)
                /\ spawn_calls' = spawn_calls + 1
                /\ nprocs' = SpawnNprocs(args)
                /\ \/ pc' = "workers" /\ UNCHANGED child_status
                   \/ pc' = "child_exit" /\ child_status' = 1
    /\ UNCHANGED inputs
    /\ UNCHANGED max_str_digits
    /\ UNCHANGED <<env, error, num_gpus, training_command, launches,
                   call_env, reading, run, last_status, workers,
                   compiler_runs, exit_status>>

\* xmp.spawn starts the next process; it inherits os.environ
XmpStartWorker ==
    /\ pc = "workers"
    /\ Cardinality(Started) < Len(XmpSpawnOrdinals(nprocs))
    /\ workers' =
           Append(workers,
                  [call |-> spawn_calls,
                   ordinal |-> XmpSpawnOrdinals(nprocs)[Cardinality(Started) + 1],
                   env |-> env,
                   status |-> -1])
    /\ UNCHANGED inputs
    /\ UNCHANGED max_str_digits
    /\ UNCHANGED <<env, pc, error, num_gpus, training_command, launches,
                   call_env, reading, run, last_status, sys_argv,
                   spawn_calls, nprocs, compiler_runs, child_status,
                   exit_status>>

\* a worker process runs _mp_fn(index) and terminates with a status
WorkerExit ==
    /\ pc = "workers"
    /\ \E k \in Started, status \in {0, 1} :
        /\ workers[k].status = -1
        /\ workers' = [workers EXCEPT ![k].status = status]
    /\ UNCHANGED inputs
    /\ UNCHANGED max_str_digits
    /\ UNCHANGED <<env, pc, error, num_gpus, training_command, launches,
                   call_env, reading, run, last_status, sys_argv,
                   spawn_calls, nprocs, compiler_runs, child_status,
                   exit_status>>

\* xmp.spawn returns or raises when every process was started and has
\* terminated, and the xla_spawn process ends
XmpJoin ==
    /\ pc = "workers"
    /\ Cardinality(Started) = Len(XmpSpawnOrdinals(nprocs))
    /\ \A k \in Started : workers[k].status # -1
    /\ child_status' = XmpJoinStatus([k \in Started |-> workers[k].status])
    /\ pc' = "child_exit"
    /\ UNCHANGED inputs
    /\ UNCHANGED max_str_digits
    /\ UNCHANGED <<env, error, num_gpus, training_command, launches,
                   call_env, reading, run, last_status, sys_argv,
                   spawn_calls, nprocs, workers, compiler_runs, exit_status>>

\* the shell has waited for the xla_spawn process and has its exit status;
\* the process that is running is the launcher again
ShellWait ==
    /\ pc = "child_exit"
    /\ last_status' = child_status
    /\ env' = call_env
    /\ max_str_digits' = IntMaxStrDigits(env0).limit
    /\ pc' = "shell"
    /\ UNCHANGED inputs
    /\ UNCHANGED <<error, num_gpus, training_command, launches, call_env,
                   reading, run, sys_argv, spawn_calls, nprocs, workers,
                   compiler_runs, child_status, exit_status>>

\* sm_dist.py line 60: the shell has run its commands and exits; check_call
\* returns, or raises CalledProcessError
CheckCallReturn ==
    /\ pc = "shell"
    /\ run = Len(reading.runs)
    /\ LET status == CheckCallStatus(ShellStatus(reading, last_status))
       IN  /\ exit_status' = status
           /\ error' = IF status # 0 THEN "CalledProcessError" ELSE error
    /\ pc' = "done"
    /\ UNCHANGED inputs
    /\ UNCHANGED max_str_digits
    /\ UNCHANGED <<env, num_gpus, training_command, launches, call_env,
                   reading, run, last_status, sys_argv, spawn_calls, nprocs,
                   workers, compiler_runs, child_status>>

Next ==
    \/ PythonStart
    \/ ImportTrainingCompiler
    \/ SmDistParseArgs
    \/ SmDistEnvironment
    \/ SmDistCommand
    \/ CheckCall
    \/ ShellRun
    \/ XlaSpawnMain
    \/ XmpStartWorker
    \/ WorkerExit
    \/ XmpJoin
    \/ ShellWait
    \/ CheckCallReturn

Spec == Init /\ [][Next]_vars

SpecArgs == InitArgs /\ [][Next]_vars

SpecCompiler == InitCompiler /\ [][Next]_vars

----------------------------------------------------------------------------
(* Properties                                                              *)

\* the manifest has both fields, so that the topology can be resolved
Resolvable ==
    manifest.state = "ok" /\ DOMAIN manifest.config = {"current_host", "hosts"}

Hosts == manifest.config["hosts"]

CurrentHost == manifest.config["current_host"]

\* sm_dist.py has written the topology into os.environ
Projected ==
    num_gpus # NoArg /\ pc # "parsed" /\ ReadManifest(manifest) = "none"

Occurrences(hosts, h) == {i \in DOMAIN hosts : hosts[i] = h}

Min(set) == CHOOSE x \in set : \A y \in set : x <= y

Max(set) == CHOOSE x \in set : \A y \in set : x >= y

IsEven(n) == n % 2 = 0

\* the words the forwarding rules give for a flat list of complete pairs
RECURSIVE ForwardedWords(_)
ForwardedWords(args) ==
    IF Len(args) < 2 THEN <<>>
    ELSE LET flag == args[1]
             value == args[2]
             rest == ForwardedWords(SubSeq(args, 3, Len(args)))
         IN  IF value = <<84, 114, 117, 101>> (* "True" *) THEN <<flag>> \o rest
             ELSE IF value = <<70, 97, 108, 115, 101>> (* "False" *) THEN rest
             ELSE <<flag, value>> \o rest

\* the words written one after the other, each followed by a blank
RECURSIVE Blanked(_)
Blanked(words) ==
    IF words = <<>> THEN <<>> ELSE words[1] \o SP \o Blanked(Tail(words))


\* the requested device count: --num_gpus, by default SM_NUM_GPUS
Requested ==
    IF argv_num_gpus = NoArg THEN env0[SM_NUM_GPUS] ELSE argv_num_gpus

LaunchWords ==
    <<<<112, 121, 116, 104, 111, 110>> (* "python" *), <<45, 109>> (* "-m" *), <<116,
            111, 114, 99, 104, 95, 120, 108, 97, 46, 100, 105, 115, 116, 114,
            105, 98, 117, 116, 101, 100, 46, 120, 108, 97, 95, 115, 112, 97,
            119, 110>> (* "torch_xla.distributed.xla_spawn" *), <<45, 45, 110,
            117, 109, 95, 103, 112, 117, 115>> (* "--num_gpus" *),
      Requested, argv_script>>

\* the requested device count is a positive integer, of any length
PositiveCount(text) ==
    IsInt(text, 0) /\ ParseInt(text) # <<48>> (* "0" *) /\ ParseInt(text)[1] # 45 (* "-" *)

\* the number a count stands for
Count(text) == Number(ParseInt(text))

\* C1: when current_host occurs exactly once in hosts, after the topology is
\* resolved XRT_HOST_ORDINAL is the 0-based index of current_host and
\* XRT_SHARD_WORLD_SIZE is len(hosts), whatever the two variables held before
C1_RankAndWorldSize ==
    (Projected /\ Cardinality(Occurrences(Hosts, CurrentHost)) = 1)
        => /\ XRT_HOST_ORDINAL \in DOMAIN env
           /\ env[XRT_HOST_ORDINAL] =
                  Str(Min(Occurrences(Hosts, CurrentHost)) - 1)
           /\ XRT_SHARD_WORLD_SIZE \in DOMAIN env
           /\ env[XRT_SHARD_WORLD_SIZE] = Str(Len(Hosts))

C1_Witness ==
    /\ Projected
    /\ Occurrences(Hosts, CurrentHost) = {2}
    /\ XRT_HOST_ORDINAL \in DOMAIN env0 /\ env0[XRT_HOST_ORDINAL] = <<55>> (* "7" *)
    /\ XRT_SHARD_WORLD_SIZE \in DOMAIN env0
    /\ env[XRT_HOST_ORDINAL] = <<49>> (* "1" *)
    /\ env[XRT_SHARD_WORLD_SIZE] = <<50>> (* "2" *)

\* C2: in the environment handed to the workers XRT_MESH_SERVICE_ADDRESS is
\* present exactly when the manifest has more than one host, and then it is
\* hosts[0]:mesh_service_port, for every initial environment
C2_MeshAddressIffMultiHost ==
    \A k \in DOMAIN workers :
        /\ (XRT_MESH_SERVICE_ADDRESS \in DOMAIN workers[k].env)
               <=> (Len(Hosts) > 1)
        /\ XRT_MESH_SERVICE_ADDRESS \in DOMAIN workers[k].env
               => workers[k].env[XRT_MESH_SERVICE_ADDRESS] =
                      Hosts[1] \o <<58, 53, 51, 57, 53, 55>> (* ":53957" *)

\* C3: for an even-length argument list the forwarded command line is, in
\* pair order, the flag alone for "True", nothing for "False", and the flag
\* followed by the value otherwise: the launch is one command, and these are
\* the words xla_spawn is started with after the script
C3_ForwardedCommandLine ==
    (launches > 0 /\ IsEven(Len(rem_args)))
        => /\ training_command =
                  Blanked(LaunchWords) \o Blanked(ForwardedWords(rem_args))
           /\ ~reading.error
           /\ Len(reading.runs) = 1
           /\ reading.runs[1].argv = LaunchWords \o ForwardedWords(rem_args)

\* C4: a launch with device count N >= 1 creates exactly N workers, their
\* local ordinals are 0 .. N-1, each assigned once in that order, and
\* nothing is started a second time
C4_OneWorkerPerOrdinal ==
    (launches > 0 /\ PositiveCount(Requested))
        => /\ launches = 1
           /\ spawn_calls <= 1
           /\ Len(workers) <= Count(Requested)
           /\ \A k \in DOMAIN workers : workers[k].ordinal = k - 1
           /\ (pc = "done" /\ workers # <<>>)
                  => Len(workers) = Count(Requested)

\* C5: the launch reports its status only after every created worker has
\* terminated, and the status is zero exactly when every worker exited zero
C5_JoinAllStatus ==
    (exit_status # -1 /\ workers # <<>>)
        => /\ \A k \in DOMAIN workers : workers[k].status \in {0, 1}
           /\ (exit_status = 0)
                  <=> (\A k \in DOMAIN workers : workers[k].status = 0)

\* C6: when the requested device count is a positive integer, every worker
\* inherits GPU_NUM_DEVICES equal to it, whatever it was before the launch
\* and wherever the compiler flag layer ran
C6_DeviceCount ==
    \A k \in DOMAIN workers :
        PositiveCount(Requested)
            => /\ GPU_NUM_DEVICES \in DOMAIN workers[k].env
               /\ workers[k].env[GPU_NUM_DEVICES] = Requested

\* C7: with an empty hosts list the launch aborts before the launch command
\* is executed and before any worker is started
C7_EmptyHostsAbort ==
    (Resolvable /\ Hosts = <<>>)
        => /\ pc \in {"start", "import", "main", "parsed", "done"}
           /\ pc = "done" => exit_status # 0
           /\ launches = 0
           /\ workers = <<>>

\* C8: with an odd-length argument list the trailing flag is dropped, the
\* complete pairs are forwarded by the usual rules and the launch proceeds
C8_OddLengthProceeds ==
    (~IsEven(Len(rem_args)) /\ Projected /\ pc # "command")
        => /\ error # "IndexError"
           /\ training_command =
                  Blanked(LaunchWords) \o Blanked(ForwardedWords(rem_args))

\* C9 as stated: when current_host occurs in hosts, possibly more than once,
\* the rank is the first (smallest) index at which it occurs
C9_RankIsFirstIndex ==
    (Projected /\ Occurrences(Hosts, CurrentHost) # {})
        => env[XRT_HOST_ORDINAL] =
               Str(Min(Occurrences(Hosts, CurrentHost)) - 1)

\* C9 amended: when current_host occurs in hosts, possibly more than once,
\* the rank is the last (largest) index at which it occurs
C9_RankIsLastIndex ==
    (Projected /\ Occurrences(Hosts, CurrentHost) # {})
        => env[XRT_HOST_ORDINAL] =
               Str(Max(Occurrences(Hosts, CurrentHost)) - 1)

C9_Witness ==
    /\ Projected
    /\ Cardinality(Occurrences(Hosts, CurrentHost)) >= 2
    /\ env[XRT_HOST_ORDINAL] = <<49>> (* "1" *)

\* the keys of the object in SM_FRAMEWORK_PARAMS, when it is one
ParamKeys ==
    IF framework_params.state = "loaded" /\ framework_params.value.t = "dict"
    THEN {framework_params.value.items[i].key :
             i \in DOMAIN framework_params.value.items}
    ELSE {}

\* the hyper-parameters have a compiler key and do not enable the compiler:
\* the enabled key is absent or false
CompilerKeyButDisabled ==
    /\ \E key \in ParamKeys : StartsWith(key, SM_TRAINING_COMPILER_PREFIX)
    /\ \A i \in DOMAIN framework_params.value.items :
           framework_params.value.items[i].key = HP_ENABLE_COMPILER
               => framework_params.value.items[i].raw
                      \in {PyBool(FALSE), PyStr(<<102, 97, 108, 115, 101>> (* "false" *))}

\* C10: constructing TrainingCompilerConfig with a compiler key present and
\* the compiler not enabled raises nothing and leaves
\* SM_TRAINING_COMPILER_CONFIGURED as it was
C10_DisabledIsNoOp ==
    CompilerKeyButDisabled
        => /\ error # "AttributeError"
           /\ (SM_TRAINING_COMPILER_CONFIGURED \in DOMAIN env)
                  <=> (SM_TRAINING_COMPILER_CONFIGURED \in DOMAIN env0)

====
